---- MODULE Spec2Model ----
(***************************************************************************)
(* Model of the stock_quote HTTP handler                                   *)
(* (azure/modules/function_app/app/stock_quote/__init__.py, function main).*)
(*                                                                         *)
(* Strings are sequences of one-character strings, so that split('/'),     *)
(* split('?'), isalpha(), len() and upper() are computed character by      *)
(* character as Python computes them.  Prices are floats written as a      *)
(* number of ten-thousandths plus the sign of the binary representation    *)
(* error, so that round(x, 2) is computed on the float's exact value.      *)
(***************************************************************************)
EXTENDS Integers, Sequences, FiniteSets, TLC

(* ------------------------------ bounds --------------------------------- *)
\* longest generated path segment (besides the named examples below)
MaxSegLen == 2
\* last day the wall clock can show
MaxDay == 1

(* ------------------------------ strings -------------------------------- *)
Lower == <<"a","b","c","d","e","f","g","h","i","j","k","l","m",
           "n","o","p","q","r","s","t","u","v","w","x","y","z">>
Upper == <<"A","B","C","D","E","F","G","H","I","J","K","L","M",
           "N","O","P","Q","R","S","T","U","V","W","X","Y","Z">>

IsLowerChar(c) == \E i \in 1..26 : Lower[i] = c
IsUpperChar(c) == \E i \in 1..26 : Upper[i] = c
\* str.isalpha() on one character
IsAlphaChar(c) == IsLowerChar(c) \/ IsUpperChar(c)
\* str.upper() on one character
UpperChar(c) == IF IsLowerChar(c) THEN Upper[CHOOSE i \in 1..26 : Lower[i] = c] ELSE c

\* str.isalpha(): at least one character and every character a letter
IsAlpha(s) == Len(s) > 0 /\ \A i \in 1..Len(s) : IsAlphaChar(s[i])

\* str.upper()
ToUpper(s) == [i \in 1..Len(s) |-> UpperChar(s[i])]

\* str.split(sep) for a one-character separator: count(sep)+1 pieces
RECURSIVE Split(_, _)
Split(s, sep) ==
    IF \A i \in 1..Len(s) : s[i] # sep
    THEN <<s>>
    ELSE LET k == CHOOSE i \in 1..Len(s) :
                     s[i] = sep /\ \A j \in 1..(i-1) : s[j] # sep
         IN  <<SubSeq(s, 1, k-1)>> \o Split(SubSeq(s, k+1, Len(s)), sep)

(* --------------------------- optional values --------------------------- *)
\* Python None / a str value
NoStr == [has |-> FALSE, val |-> <<>>]
Some(s) == [has |-> TRUE, val |-> s]
\* Python truthiness of an optional str: `not symbol`
NotStr(o) == ~o.has \/ o.val = <<>>

(* ------------------------------ requests ------------------------------- *)
\* the route of the function: /api/stock_quote
BaseUrl == <<"/","a","p","i","/","s","t","o","c","k","_","q","u","o","t","e">>
RouteName == <<"s","t","o","c","k","_","q","u","o","t","e">>
SymbolKey == <<"s","y","m","b","o","l","=">>
OtherKey == <<"x","=">>

MSFT == <<"M","S","F","T">>
aapl == <<"a","a","p","l">>
AAPL == <<"A","A","P","L">>

SegChars == {"a", "1"}
RECURSIVE StringsUpTo(_, _)
StringsUpTo(chars, n) ==
    IF n = 0 THEN {<<>>}
    ELSE LET shorter == StringsUpTo(chars, n - 1)
         IN  shorter \cup {Append(s, c) : s \in shorter, c \in chars}

\* text after the route's last '/': generated short strings, the documented
\* example, and segments of exactly 5 and of 6 letters
Segs == StringsUpTo(SegChars, MaxSegLen)
          \cup {MSFT, <<"a","b","c","d","e">>, <<"a","b","c","d","e","f">>}
\* values of ?symbol= (the empty value included)
SymVals == {<<>>, aapl, <<"b","/","1">>}
\* values of another query parameter, ?x=
OtherVals == {<<"a","?","b">>, <<"a","/","b">>, <<"a","/","1">>}

\* a request: the optional segment after the route, the optional query
\* parameter 'symbol', an optional other query parameter
Requests == [seg   : {NoStr} \cup {Some(s) : s \in Segs},
             symq  : {NoStr} \cup {Some(s) : s \in SymVals},
             other : {NoStr} \cup {Some(s) : s \in OtherVals}]

QueryString(r) ==
    LET a == IF r.symq.has THEN SymbolKey \o r.symq.val ELSE <<>>
        b == IF r.other.has THEN OtherKey \o r.other.val ELSE <<>>
    IN  IF r.symq.has /\ r.other.has THEN <<"?">> \o a \o <<"&">> \o b
        ELSE IF r.symq.has \/ r.other.has THEN <<"?">> \o a \o b
        ELSE <<>>

\* req.url
Url(r) == BaseUrl \o (IF r.seg.has THEN <<"/">> \o r.seg.val ELSE <<>>) \o QueryString(r)

\* req.params.get('symbol')
ParamsGetSymbol(r) == r.symq

\* the final segment of the URL's path component (the query is not part of it)
FinalPathSegment(r) == IF r.seg.has THEN r.seg.val ELSE RouteName

(* --------------------------- symbol extraction ------------------------- *)
\* the symbol length limit of the path heuristic
MaxSymbolLen == 5

\* lines 23-28: the last '/'-piece of req.url, cut at its first '?'
PotentialSymbol(url) ==
    LET url_parts == Split(url, "/")
    IN  Split(url_parts[Len(url_parts)], "?")[1]

\* line 30: letters only, 1-5 characters
LooksLikeSymbol(s) == s # <<>> /\ IsAlpha(s) /\ Len(s) <= MaxSymbolLen

ResolveSymbol_pathFirst(r) ==
    IF LooksLikeSymbol(PotentialSymbol(Url(r)))
    THEN Some(PotentialSymbol(Url(r)))
    ELSE ParamsGetSymbol(r)

\* lines 18-31: the query parameter first, the URL second
ResolveSymbol(r) ==
    IF ~NotStr(ParamsGetSymbol(r))
    THEN ParamsGetSymbol(r)
    ELSE IF LooksLikeSymbol(PotentialSymbol(Url(r)))
         THEN Some(PotentialSymbol(Url(r)))
         ELSE ParamsGetSymbol(r)

NormalizeSymbol_asGiven(s) == s

\* line 41: symbol.upper()
NormalizeSymbol(s) == ToUpper(s)

(* ------------------------------- prices -------------------------------- *)
\* A provider value: None (also what info.get gives for a missing key), a
\* float, or a str.  The float's exact value is n/10000 + sgn * epsilon, with
\* epsilon far below 1/10000; sgn = 0 only for values a binary float holds
\* exactly (625 divides n).
NonePrice == [kind |-> "none", n |-> 0, sgn |-> 0]
Num(n, sgn) == [kind |-> "num", n |-> n, sgn |-> sgn]
StrPrice == [kind |-> "str", n |-> 0, sgn |-> 0]

\* None, 0.0, 142.3456, 0.125 and 0.375 (exact ties), 2.675 (stored just
\* below the tie) and a str
PriceValues == {NonePrice, Num(0, 0), Num(1423456, 1), Num(1250, 0),
                Num(3750, 0), Num(26750, -1), StrPrice}

\* Python truthiness of a provider value
Truthy(v) == \/ v.kind = "num" /\ (v.n # 0 \/ v.sgn # 0)
             \/ v.kind = "str"

\* Python `a or b`
PyOr(a, b) == IF Truthy(a) THEN a ELSE b

\* round(x, 2) of a non-negative float, in hundredths: the nearest hundredth
\* to the float's exact value, an exact tie going to the even neighbour
Round2_truncate(v) == v.n \div 100

Round2(v) ==
    LET q == v.n \div 100
        r == v.n % 100
    IN  IF r < 50 THEN q
        ELSE IF r > 50 THEN q + 1
        ELSE IF v.sgn > 0 THEN q + 1
        ELSE IF v.sgn < 0 THEN q
        ELSE IF q % 2 = 0 THEN q ELSE q + 1

(* ------------------------------ provider ------------------------------- *)
\* what yf.Ticker(symbol).info does: raises, yields no dict, or yields a dict
\* read through .get('currentPrice') and .get('regularMarketPrice')
NoDetail == "none"
Details == {"timeout", "HTTPError"}
NoAnswer == [kind |-> "nocall", cur |-> NonePrice, reg |-> NonePrice, detail |-> NoDetail]
Raises(d) == [kind |-> "raise", cur |-> NonePrice, reg |-> NonePrice, detail |-> d]
NoneInfo == [kind |-> "noinfo", cur |-> NonePrice, reg |-> NonePrice, detail |-> NoDetail]
Info(c, g) == [kind |-> "info", cur |-> c, reg |-> g, detail |-> NoDetail]

RaiseAnswers == {Raises(d) : d \in Details}
Answers == {Info(c, g) : c \in PriceValues, g \in PriceValues}
             \cup RaiseAnswers \cup {NoneInfo}

\* line 48: info.get('currentPrice') or info.get('regularMarketPrice')
ResolvePrice(i) == PyOr(i.cur, i.reg)

(* ------------------------------ responses ------------------------------ *)
MissingSymbolMsg == "Stock symbol parameter is required. Use ?symbol=AAPL or /stock_quote/AAPL"
NoPriceMsg == "Could not retrieve price for symbol "
InternalErrorMsg == "Internal server error occurred"

\* lines 34-38
MissingSymbolResponse ==
    [status |-> 400, body |-> [error |-> [text |-> MissingSymbolMsg, arg |-> <<>>]]]

\* lines 51-55: the f-string appends the symbol to the fixed text
NoPriceResponse(sym) ==
    [status |-> 404, body |-> [error |-> [text |-> NoPriceMsg, arg |-> sym]]]

ErrorResponse_leaky(detail) ==
    [status |-> 500, body |-> [error |-> [text |-> detail, arg |-> <<>>]]]

\* lines 79-83: the exception is logged, the body is fixed
ErrorResponse(detail) ==
    [status |-> 500, body |-> [error |-> [text |-> InternalErrorMsg, arg |-> <<>>]]]

\* the wall clock: instants in seconds, at day boundaries
SecondsPerDay == 86400
Instants == {d * SecondsPerDay : d \in 0..MaxDay}
\* datetime.strftime("%Y-%m-%d"): the day of the instant
StrfDate(t) == t \div SecondsPerDay
\* int(datetime.timestamp())
Timestamp(t) == t

SuccessResponse_swapped(sym, price, d, t) ==
    [status |-> 200,
     body |-> [date |-> StrfDate(d), price |-> Timestamp(t),
               symbol |-> sym, time |-> Round2(price)]]

\* lines 58-75
SuccessResponse(sym, price, d, t) ==
    [status |-> 200,
     body |-> [date |-> StrfDate(d), price |-> Round2(price),
               symbol |-> sym, time |-> Timestamp(t)]]

(* ------------------------------- state --------------------------------- *)
VARIABLES
    pc,             \* where the invocation stands in main
    req,            \* the request of the invocation
    symbol,         \* the local `symbol`
    info,           \* what ticker.info gave (NoAnswer before the call)
    lookupArg,      \* the argument yf.Ticker was called with
    lookups,        \* provider calls made by this invocation
    current_price,  \* the local `current_price`
    raised,         \* the detail of the exception in flight (NoDetail: none)
    responses,      \* the responses this invocation has returned
    client,         \* who calls in this run: anyone, or a caller repeating a request
    provider,       \* the provider of this run: arbitrary, stable, or failing
    ref             \* an earlier finished invocation, kept for comparison

vars == <<pc, req, symbol, info, lookupArg, lookups, current_price, raised,
          responses, client, provider, ref>>

NoRequest == [seg |-> NoStr, symq |-> NoStr, other |-> NoStr]
NoResponse == [status |-> 0, body |-> [error |-> [text |-> "", arg |-> <<>>]]]
NoRef == [has |-> FALSE, req |-> NoRequest, raised |-> NoDetail, response |-> NoResponse]

Locals ==
    /\ pc = "idle"
    /\ req = NoRequest
    /\ symbol = NoStr
    /\ info = NoAnswer
    /\ lookupArg = NoStr
    /\ lookups = 0
    /\ current_price = NonePrice
    /\ raised = NoDetail
    /\ responses = <<>>
    /\ ref = NoRef

\* requests sent between two identical requests of a run
Others == {[seg |-> NoStr, symq |-> NoStr, other |-> NoStr],
           [seg |-> NoStr, symq |-> Some(aapl), other |-> NoStr]}

AnyClient == [kind |-> "any", probe |-> NoRequest]
Repeating(r) == [kind |-> "repeat", probe |-> r]
\* the requests a client sends
ClientRequests(c) == IF c.kind = "any" THEN Requests ELSE {c.probe} \cup Others

AnyProvider == [kind |-> "any", answer |-> NoAnswer]
Stable(a) == [kind |-> "stable", answer |-> a]
Failing == [kind |-> "failing", answer |-> NoAnswer]
\* the answers a provider can give to a lookup
ProviderAnswers(p) ==
    IF p.kind = "any" THEN Answers
    ELSE IF p.kind = "stable" THEN {p.answer}
    ELSE RaiseAnswers

\* any caller, any provider behaviour
Init ==
    /\ Locals
    /\ client = AnyClient
    /\ provider = AnyProvider

\* a caller that repeats one request among others, against a provider whose
\* answer does not change, or one that fails with varying detail
InitPair ==
    /\ Locals
    /\ client \in {Repeating(r) : r \in Requests}
    /\ provider \in {Stable(a) : a \in Answers} \cup {Failing}

(* ------------------------------ actions -------------------------------- *)
\* line 7: the host calls main(req); the locals are fresh
Receive ==
    /\ pc = "idle"
    /\ \E r \in ClientRequests(client) : req' = r
    /\ pc' = "extract"
    /\ symbol' = NoStr
    /\ info' = NoAnswer
    /\ lookupArg' = NoStr
    /\ lookups' = 0
    /\ current_price' = NonePrice
    /\ raised' = NoDetail
    /\ responses' = <<>>
    /\ UNCHANGED <<client, provider, ref>>

\* lines 18-31
Extract ==
    /\ pc = "extract"
    /\ symbol' = ResolveSymbol(req)
    /\ pc' = "validate"
    /\ UNCHANGED <<req, info, lookupArg, lookups, current_price, raised,
                   responses, client, provider, ref>>

\* lines 33-41: 400 without a symbol, else uppercase it
Validate ==
    /\ pc = "validate"
    /\ IF NotStr(symbol)
       THEN /\ responses' = Append(responses, MissingSymbolResponse)
            /\ pc' = "done"
            /\ UNCHANGED symbol
       ELSE /\ symbol' = Some(NormalizeSymbol(symbol.val))
            /\ pc' = "lookup"
            /\ UNCHANGED responses
    /\ UNCHANGED <<req, info, lookupArg, lookups, current_price, raised,
                   client, provider, ref>>

Lookup_retry ==
    /\ pc = "lookup"
    /\ \E a \in ProviderAnswers(provider) :
         /\ lookups' = lookups + 1
         /\ lookupArg' = symbol
         /\ IF a.kind = "raise"
            THEN /\ raised' = a.detail
                 /\ pc' = IF lookups = 0 THEN "lookup" ELSE "except"
                 /\ UNCHANGED info
            ELSE /\ info' = a
                 /\ pc' = "price"
                 /\ UNCHANGED raised
    /\ UNCHANGED <<req, symbol, current_price, responses, client, provider, ref>>

\* lines 44-45: the one provider call; an exception goes to the handler
Lookup ==
    /\ pc = "lookup"
    /\ \E a \in ProviderAnswers(provider) :
         /\ lookups' = lookups + 1
         /\ lookupArg' = symbol
         /\ IF a.kind = "raise"
            THEN /\ raised' = a.detail
                 /\ pc' = "except"
                 /\ UNCHANGED info
            ELSE /\ info' = a
                 /\ pc' = "price"
                 /\ UNCHANGED raised
    /\ UNCHANGED <<req, symbol, current_price, responses, client, provider, ref>>

\* lines 48-55: info.get on something that is no dict raises AttributeError;
\* no price gives 404
Price ==
    /\ pc = "price"
    /\ IF info.kind = "noinfo"
       THEN /\ raised' = "AttributeError"
            /\ pc' = "except"
            /\ UNCHANGED <<current_price, responses>>
       ELSE /\ current_price' = ResolvePrice(info)
            /\ IF ResolvePrice(info).kind = "none"
               THEN /\ responses' = Append(responses, NoPriceResponse(symbol.val))
                    /\ pc' = "done"
               ELSE /\ pc' = "format"
                    /\ UNCHANGED responses
            /\ UNCHANGED raised
    /\ UNCHANGED <<req, symbol, info, lookupArg, lookups, client, provider, ref>>

\* lines 58-75: two readings of the clock, then round() (TypeError on a str)
Format ==
    /\ pc = "format"
    /\ \E d \in Instants, t \in Instants :
         /\ d <= t
         /\ IF current_price.kind # "num"
            THEN /\ raised' = "TypeError"
                 /\ pc' = "except"
                 /\ UNCHANGED responses
            ELSE /\ responses' = Append(responses,
                                        SuccessResponse(symbol.val, current_price, d, t))
                 /\ pc' = "done"
                 /\ UNCHANGED raised
    /\ UNCHANGED <<req, symbol, info, lookupArg, lookups, current_price,
                   client, provider, ref>>

\* lines 77-83
Except ==
    /\ pc = "except"
    /\ responses' = Append(responses, ErrorResponse(raised))
    /\ pc' = "done"
    /\ UNCHANGED <<req, symbol, info, lookupArg, lookups, current_price, raised,
                   client, provider, ref>>

\* the invocation is over: its request, response and locals are gone
Finish ==
    /\ pc = "done"
    /\ pc' = "idle"
    /\ req' = NoRequest
    /\ symbol' = NoStr
    /\ info' = NoAnswer
    /\ lookupArg' = NoStr
    /\ lookups' = 0
    /\ current_price' = NonePrice
    /\ raised' = NoDetail
    /\ responses' = <<>>
    /\ UNCHANGED <<client, provider, ref>>

\* an observer keeps a finished invocation of the repeated request to compare
\* later ones with
Remember ==
    /\ pc = "done"
    /\ req = client.probe
    /\ ref' = [has |-> TRUE, req |-> req, raised |-> raised,
               response |-> responses[Len(responses)]]
    /\ ref' # ref
    /\ UNCHANGED <<pc, req, symbol, info, lookupArg, lookups, current_price,
                   raised, responses, client, provider>>

Next == Receive \/ Extract \/ Validate \/ Lookup \/ Price \/ Format \/ Except \/ Finish

NextPair == Next \/ Remember

Spec == Init /\ [][Next]_vars

SpecPair == InitPair /\ [][NextPair]_vars

(* ------------------------------ properties ----------------------------- *)
\* the response of a finished invocation
Finished == pc = "done"
Response == responses[Len(responses)]
\* the invocation has passed symbol extraction (lines 18-31)
Extracted == pc \in {"validate", "lookup", "price", "format", "except", "done"}
QueryGiven(r) == r.symq.has /\ r.symq.val # <<>>

TypeOK ==
    /\ pc \in {"idle", "extract", "validate", "lookup", "price", "format", "except", "done"}
    /\ req \in Requests
    /\ lookups \in 0..1
    /\ Len(responses) <= 1

\* C1: a query parameter 'symbol' that is present and non-empty is the
\* resolved symbol, whatever the path is: extraction yields exactly the query
\* value, the provider is asked for its uppercase form, the request is never
\* answered 400, and the URL decides the symbol only when the query parameter
\* gives none.
C1_QueryParameterWins ==
    /\ (Extracted /\ QueryGiven(req)) =>
          /\ pc = "validate" => symbol = Some(req.symq.val)
          /\ lookupArg.has => lookupArg.val = ToUpper(req.symq.val)
          /\ Finished => Response.status # 400
    /\ (pc = "validate" /\ symbol.has /\ symbol # req.symq) => ~QueryGiven(req)

\* a finished request whose query symbol and (valid, different) path segment
\* compete
C1_Witness ==
    /\ Finished
    /\ req.symq = Some(aapl)
    /\ req.seg = Some(MSFT)
    /\ lookupArg = Some(AAPL)
    /\ Response.status = 200

\* C2: without a query parameter 'symbol' the candidate is the final path
\* segment, accepted iff non-empty, alphabetic and at most 5 long, for every
\* URL, other query parameters included.
C2_PathSegmentIsCandidate ==
    (pc = "validate" /\ ~req.symq.has) =>
        symbol = IF LooksLikeSymbol(FinalPathSegment(req))
                 THEN Some(FinalPathSegment(req))
                 ELSE NoStr

\* C3: without a query parameter 'symbol', a final path segment that is
\* empty, too long or not alphabetic gives 400 with the documented body; and
\* 400 is given only when no symbol was resolved.
C3_UnusablePathIs400 ==
    /\ (Finished /\ ~req.symq.has /\ ~LooksLikeSymbol(FinalPathSegment(req))) =>
          (Response.status = 400 /\ Response.body.error.text = MissingSymbolMsg)
    /\ (Finished /\ Response.status = 400) => NotStr(ResolveSymbol(req))

\* C4: the symbol given to the provider, the symbol of a 200 response and
\* the symbol in a 404 message are one string, the uppercase form of the
\* resolved symbol.
C4_UppercaseEverywhere ==
    /\ lookupArg.has =>
          /\ lookupArg.val = ToUpper(ResolveSymbol(req).val)
          /\ \A i \in 1..Len(lookupArg.val) : ~IsLowerChar(lookupArg.val[i])
    /\ (Finished /\ Response.status = 200) => Response.body.symbol = lookupArg.val
    /\ (Finished /\ Response.status = 404) =>
          /\ Response.body.error.text = NoPriceMsg
          /\ Response.body.error.arg = lookupArg.val
    /\ (Finished /\ Response.status \in {200, 404}) => lookupArg.has

\* ?symbol=aapl answered with "AAPL"
C4_Witness ==
    /\ Finished
    /\ req.symq = Some(aapl)
    /\ Response.status = 200
    /\ Response.body.symbol = AAPL

\* C5: after a lookup that gave a dict, the response is 404 (with the symbol
\* in the message) iff neither price field is there; a numeric field, the
\* value 0 included, never gives 404.
C5_NotFoundIffNoField ==
    (Finished /\ info.kind = "info") =>
        /\ (Response.status = 404) <=> (info.cur.kind = "none" /\ info.reg.kind = "none")
        /\ Response.status = 404 =>
              (Response.body.error.text = NoPriceMsg /\ Response.body.error.arg = symbol.val)
        /\ (info.cur.kind = "num" \/ info.reg.kind = "num") => Response.status # 404

\* C6: a primary price field that is present is the price used, the value 0
\* included; the alternate field is used only when the primary is absent.
C6_PrimaryFieldFirst ==
    (pc \in {"format", "done"} /\ info.kind = "info") =>
        /\ info.cur.kind # "none" => current_price = info.cur
        /\ current_price # info.cur => info.cur.kind = "none"

\* C7: an invocation in which an exception was raised ends with exactly one
\* response, 500 with the fixed body; the detail is not in the body, and two
\* invocations of the same request that raised, whatever the details,
\* returned identical responses.
C7_ErrorsBecomeGeneric500 ==
    /\ Finished => Len(responses) = 1
    /\ pc = "except" => (raised # NoDetail /\ responses = <<>>)
    /\ (Finished /\ raised # NoDetail) =>
          /\ Response.status = 500
          /\ DOMAIN Response.body = {"error"}
          /\ Response.body.error.text = InternalErrorMsg
          /\ Response.body.error.arg = <<>>
          /\ Response.body.error.text # raised
    /\ (Finished /\ Response.status = 500) => raised # NoDetail
    /\ (Finished /\ raised # NoDetail /\ ref.has /\ ref.raised # NoDetail
            /\ ref.req = req) => Response = ref.response

\* the same request failed twice in the provider, with different details
C7_Witness ==
    /\ Finished
    /\ ref.has
    /\ ref.req = req
    /\ raised \in Details
    /\ ref.raised \in Details
    /\ raised # ref.raised
    /\ lookups = 1

\* C8: a numeric price resolved at line 48 gives 200 with exactly the fields
\* date, price, symbol and time, the price being a hundredth nearest to the
\* resolved price (142.3456 gives 142.35); 200 is given only when a symbol
\* was resolved and a price was found.
C8_SuccessBody ==
    /\ (Finished /\ current_price.kind = "num") =>
          /\ Response.status = 200
          /\ DOMAIN Response.body = {"date", "price", "symbol", "time"}
          /\ 100 * Response.body.price - current_price.n <= 50
          /\ current_price.n - 100 * Response.body.price <= 50
          /\ current_price.n = 1423456 => Response.body.price = 14235
    /\ (Finished /\ Response.status = 200) =>
          /\ ~NotStr(ResolveSymbol(req))
          /\ info.kind = "info"
          /\ info.cur.kind = "num" \/ info.reg.kind = "num"
          /\ current_price \in {info.cur, info.reg}

\* 142.3456 answered with 142.35
C8_Witness ==
    /\ Finished
    /\ current_price = Num(1423456, 1)
    /\ Response.status = 200
    /\ Response.body.price = 14235

\* what of a response may not vary between identical requests
SameAnswer(a, b) ==
    /\ a.status = b.status
    /\ IF a.status = 200
       THEN a.body.symbol = b.body.symbol /\ a.body.price = b.body.price
       ELSE a.body = b.body

\* C9: against a provider whose answer does not change, two invocations of
\* the same request have the same status and the same symbol and price (or
\* the same error body), whatever was invoked in between.
C9_Idempotent ==
    (Finished /\ ref.has /\ ref.req = req /\ provider.kind = "stable") =>
        SameAnswer(ref.response, Response)

\* the same request answered 200 twice, at different times
C9_Witness ==
    /\ Finished
    /\ ref.has
    /\ ref.req = req
    /\ provider.kind = "stable"
    /\ Response.status = 200
    /\ ref.response.status = 200
    /\ ref.response.body.time # Response.body.time

\* C10: the provider is called at most once per invocation, only with a
\* resolved and uppercased symbol and before any response; a 200 or 404
\* follows exactly one call, a 400 follows none, and a failed call is not
\* repeated.
C10_OneLookupInOrder ==
    /\ lookups <= 1
    /\ pc \in {"idle", "extract", "validate", "lookup"} => lookups = 0
    /\ pc = "lookup" => (responses = <<>> /\ ~NotStr(symbol)
                            /\ symbol.val = ToUpper(ResolveSymbol(req).val))
    /\ lookups = 1 => (lookupArg.has /\ lookupArg.val # <<>>
                          /\ lookupArg.val = ToUpper(ResolveSymbol(req).val))
    /\ (Finished /\ Response.status \in {200, 404}) => lookups = 1
    /\ (Finished /\ Response.status = 400) => lookups = 0
    /\ raised \in Details => (lookups = 1 /\ pc \in {"except", "done"})

\* a lookup failed and the invocation ended 500 after that single call
C10_Witness ==
    /\ Finished
    /\ raised \in Details
    /\ lookups = 1
    /\ Response.status = 500

====
